---- MODULE Spec2Model ----
(***************************************************************************)
(* The REST call layer of batch_apps (rest_client.py): the dispatcher      *)
(* _call and the wrappers get, head, post, put and download, as one        *)
(* single-threaded client that runs one operation at a time.  pc is the    *)
(* position inside the running operation; the transport, the response and  *)
(* the filesystem are the environment and are chosen nondeterministically. *)
(***************************************************************************)
EXTENDS Integers, Sequences, FiniteSets, TLC

\* ------------------------------------------------------------------ bounds
MaxChunks == 3
MaxHeaderLen == 2
MaxTemplateLen == 2

\* max_retries handed to the HTTPAdapter mounted on https://
RETRIES == 3

\* --------------------------------------------------------------- the data
\* Status codes the transport may answer with: the two successes, every code
\* _call names, and codes it does not name.
Codes == {200, 201, 202, 400, 401, 403, 404, 500}

\* A URL template is a sequence of pieces: literal text, the {name} field,
\* another named field, a positional field ({0} or {}), a lone brace.
Pieces == {"lit", "{name}", "{id}", "{0}", "{"}
Templates == UNION {[1..n -> Pieces] : n \in 0..MaxTemplateLen}

Filenames == {"b c.txt"}

\* Response bodies offered to get and post; the last two stand for a response
\* whose text is None and a response object without a text attribute.
Bodies == {"", "{\"a\":1}", "\"ok\"", "not json"}
TextNone == "<None>"
TextMissing == "<no attribute>"

\* A content-length header value is a string over these characters.
HeaderChars == {"4", "2", "x"}
HeaderValues == UNION {[1..n -> HeaderChars] : n \in 0..MaxHeaderLen}
NoHeader == <<"absent">>

\* Chunks a streaming response may yield: the empty chunk and two others.
Chunks == {<<>>, <<"a">>, <<"b", "c">>}
ChunkSeqs == UNION {[1..n -> Chunks] : n \in 0..MaxChunks}

Dests == {"out/a.bin"}
OldData == <<"z">>

Messages == {"none", "{x:1}", "unserializable"}

\* Exceptions the transport raises that _call catches.
TransportErrors == {"ConnectionError", "OAuth2Error"}

\* ----------------------------------------------------- messages of _call
MsgTransport == "An {type} error occurred: {error}"
Msg400 == "Invalid API request. Some of the supplied data is incorrect or malformed."
Msg401 == "Authentication for this call failed, please check your credentials"
Msg403 == "API call non-applicable."
Msg404 == "Invalid endpoint or api call."
MsgOther == "Call failed with status: {status}"
MsgGetJson == "No json object to be decoded from GET call."
MsgPostJson == "No json object to be decoded from POST call."
MsgPostText == "Response object has no text attribute."
MsgNoLength == "No content-length key in response headers."
MsgBadUrl == "Incorrectly formatted url supplied."
MsgOsError == "str(exp)"

\* ------------------------------------------------------------ outcomes
\* What an operation hands to its caller: a returned value, a raised
\* RestCallException (type, msg, cause, silent), or another exception that
\* no except clause of the wrapper caught ("leak").
NoResult ==
  [kind |-> "none", val |-> "", type |-> "", msg |-> "", cause |-> "", silent |-> FALSE]

Returned(v) ==
  [kind |-> "return", val |-> v, type |-> "", msg |-> "", cause |-> "", silent |-> FALSE]

RestCallException(type, msg, cause, silent) ==
  [kind |-> "raise", val |-> "", type |-> type, msg |-> msg, cause |-> cause, silent |-> silent]

Leaked(type) ==
  [kind |-> "leak", val |-> "", type |-> type, msg |-> "", cause |-> type, silent |-> FALSE]

\* --------------------------------------------------------- pure helpers
\* utils.url_from_filename: the filename, URL-escaped.
url_from_filename(f) ==
  IF f = "b c.txt" THEN "b%20c.txt" ELSE f

\* str.format(name=...) on a template: the pieces are rendered left to right
\* and the first piece that cannot be rendered decides the exception.
RECURSIVE FormatFrom(_, _, _)
FormatFrom(t, i, name) ==
  IF i > Len(t) THEN [err |-> "", url |-> <<>>]
  ELSE IF t[i] = "{id}" THEN [err |-> "KeyError", url |-> <<>>]
  ELSE IF t[i] = "{0}" THEN [err |-> "IndexError", url |-> <<>>]
  ELSE IF t[i] = "{" THEN [err |-> "ValueError", url |-> <<>>]
  ELSE LET rest == FormatFrom(t, i + 1, name)
           here == IF t[i] = "{name}" THEN name ELSE "lit"
       IN  IF rest.err # "" THEN rest
           ELSE [err |-> "", url |-> <<here>> \o rest.url]

Format(t, name) == FormatFrom(t, 1, name)

\* int(): the decimal value of a non-empty string of digits, ValueError
\* otherwise.
Digit(c) == IF c = "4" THEN 4 ELSE IF c = "2" THEN 2 ELSE -1

RECURSIVE IntFrom(_, _, _)
IntFrom(s, i, acc) ==
  IF i > Len(s) THEN acc
  ELSE IF Digit(s[i]) < 0 THEN -1
  ELSE IntFrom(s, i + 1, acc * 10 + Digit(s[i]))

PyInt(s) ==
  IF Len(s) = 0 \/ IntFrom(s, 1, 0) < 0
  THEN [err |-> "ValueError", val |-> 0]
  ELSE [err |-> "", val |-> IntFrom(s, 1, 0)]

\* json.loads / Response.json on the bodies above: the decoded value, or the
\* decoder's exception (JSONDecodeError is a ValueError).
JsonLoads(b) ==
  IF b = "{\"a\":1}" THEN [err |-> "", val |-> "dict(a=1)"]
  ELSE IF b = "\"ok\"" THEN [err |-> "", val |-> "str(ok)"]
  ELSE IF b = TextNone THEN [err |-> "TypeError", val |-> ""]
  ELSE IF b = TextMissing THEN [err |-> "AttributeError", val |-> ""]
  ELSE [err |-> "ValueError", val |-> ""]

\* json.dumps on the message of a post.
JsonDumps(m) ==
  IF m = "unserializable" THEN [err |-> "TypeError", val |-> ""]
  ELSE [err |-> "", val |-> m]

\* ------------------------------------------------------------ the state
VARIABLES
  pc,        \* position of the client inside the running operation
  opname,    \* the running operation: get, head, post, put, download
  args,      \* its arguments
  url,       \* the URL after template substitution
  sessions,  \* sessions acquired from the provider by this operation
  mounted,   \* max_retries of the adapter mounted on the session
  requests,  \* requests issued by this operation
  resp,      \* the response the transport returned
  callres,   \* what _call handed back: the response or a RestCallException
  files,     \* the filesystem: per destination, whether it exists and its bytes
  handles,   \* destinations with an open file handle
  idx,       \* position of download's loop in the chunks of the response
  result,    \* what the operation handed to its caller
  retInt,    \* the integer returned by head
  before,    \* history: files and stale as they were when the operation started
  stale      \* history: per destination, the last request for it failed
             \* after the file was opened

vars ==
  <<pc, opname, args, url, sessions, mounted, requests, resp, callres, files,
    handles, idx, result, retInt, before, stale>>

NoArgs ==
  [template |-> <<>>, filename |-> "", message |-> "none", hasContentType |-> TRUE,
   dest |-> "", overwrite |-> FALSE]

NoResp ==
  [status |-> 0, body |-> "", length |-> NoHeader, chunks |-> <<>>]

NoFile == [exists |-> FALSE, data |-> <<>>]

Init ==
  /\ pc = "idle"
  /\ opname = ""
  /\ args = NoArgs
  /\ url = <<>>
  /\ sessions = 0
  /\ mounted = 0
  /\ requests = 0
  /\ resp = NoResp
  /\ callres = NoResult
  /\ files \in [Dests -> {NoFile, [exists |-> TRUE, data |-> OldData]}]
  /\ handles = {}
  /\ idx = 0
  /\ result = NoResult
  /\ retInt = 0
  /\ before = [files |-> files, stale |-> [d \in Dests |-> FALSE]]
  /\ stale = [d \in Dests |-> FALSE]

\* ------------------------------------------------------ the operations
\* A call of a wrapper begins: its arguments are bound and nothing of the
\* previous call is left.
Start(name, a) ==
  /\ pc = "idle"
  /\ opname' = name
  /\ args' = a
  /\ sessions' = 0
  /\ mounted' = 0
  /\ requests' = 0
  /\ resp' = NoResp
  /\ callres' = NoResult
  /\ idx' = 0
  /\ retInt' = 0
  /\ before' = [files |-> files, stale |-> stale]
  /\ UNCHANGED <<files, handles, stale>>

\* The except clauses of each wrapper, applied to an exception other than
\* RestCallException raised inside its try block.
GetExcept(err) ==
  IF err = "ValueError" THEN RestCallException("ValueError", MsgGetJson, err, FALSE)
  ELSE Leaked(err)

HeadExcept(err) ==
  IF err = "KeyError" THEN RestCallException("KeyError", MsgNoLength, err, FALSE)
  ELSE IF err = "IndexError" THEN RestCallException("IndexError", MsgBadUrl, err, FALSE)
  ELSE Leaked(err)

PostExcept(err) ==
  IF err \in {"ValueError", "TypeError"} THEN RestCallException(err, MsgPostJson, err, FALSE)
  ELSE IF err = "AttributeError"
  THEN RestCallException("AttributeError", MsgPostText, err, FALSE)
  ELSE Leaked(err)

PutExcept(err) ==
  IF err = "IndexError" THEN RestCallException("IndexError", MsgBadUrl, err, FALSE)
  ELSE Leaked(err)

DownloadExcept(err) ==
  IF err = "OSError" THEN RestCallException(err, MsgOsError, err, FALSE)
  ELSE Leaked(err)

\* get: nothing precedes the call of _call.
GetStart ==
  /\ Start("get", NoArgs)
  /\ url' = <<"lit">>
  /\ result' = NoResult
  /\ pc' = "session"

\* head: the filename is substituted into the template, then _call.
HeadStart ==
  \E t \in Templates, f \in Filenames :
    LET r == Format(t, url_from_filename(f)) IN
    /\ Start("head", [NoArgs EXCEPT !.template = t, !.filename = f])
    /\ url' = r.url
    /\ IF r.err = ""
       THEN result' = NoResult /\ pc' = "session"
       ELSE result' = HeadExcept(r.err) /\ pc' = "done"

\* post: the message, when there is one, is JSON-encoded, then _call.
PostStart ==
  \E m \in Messages :
    LET j == IF m = "none" THEN [err |-> "", val |-> m] ELSE JsonDumps(m) IN
    /\ Start("post", [NoArgs EXCEPT !.message = m])
    /\ url' = <<"lit">>
    /\ IF j.err = ""
       THEN result' = NoResult /\ pc' = "session"
       ELSE result' = PostExcept(j.err) /\ pc' = "done"

\* put: the filename is substituted into the template, Content-Type is
\* popped from a copy of the headers, then _call.
PutStart ==
  \E t \in Templates, f \in Filenames, ct \in BOOLEAN :
    LET r == Format(t, url_from_filename(f))
        err == IF r.err # "" THEN r.err ELSE IF ~ct THEN "KeyError" ELSE ""
    IN
    /\ Start("put", [NoArgs EXCEPT !.template = t, !.filename = f,
                                   !.hasContentType = ct])
    /\ url' = r.url
    /\ IF err = ""
       THEN result' = NoResult /\ pc' = "session"
       ELSE result' = PutExcept(err) /\ pc' = "done"

\* SkipDownload with the overwrite flag left out of the test.
SkipDownloadIgnoringOverwrite(exists, overwrite) == exists

\* download: whether the existing destination ends the call at once.
SkipDownload(exists, overwrite) == exists /\ ~overwrite

DownloadStart ==
  \E d \in Dests, ow \in BOOLEAN :
    /\ Start("download", [NoArgs EXCEPT !.dest = d, !.overwrite = ow])
    /\ url' = <<"lit">>
    /\ IF SkipDownload(files[d].exists, ow)
       THEN result' = Returned("True") /\ pc' = "done"
       ELSE result' = NoResult /\ pc' = "open"

\* Opened with the file opened for append ("ab"): the old bytes stay.
OpenedForAppend(f) == [exists |-> TRUE, data |-> f.data]

\* ExitWith for a handle opened without a with block and never closed.
ExitWithoutClose(hs, d) == hs

\* open(downloadfile, "wb"): the file as it is once opened.
Opened(f) == [exists |-> TRUE, data |-> <<>>]

\* Leaving the with block closes the handle, however the block is left.
ExitWith(hs, d) == hs \ {d}

DownloadOpen ==
  /\ pc = "open"
  /\ \/ /\ files' = [files EXCEPT ![args.dest] = Opened(@)]
        /\ handles' = handles \cup {args.dest}
        /\ pc' = "session"
        /\ UNCHANGED result
     \/ /\ result' = DownloadExcept("OSError")
        /\ pc' = "done"
        /\ UNCHANGED <<files, handles>>
  /\ UNCHANGED <<opname, args, url, sessions, mounted, requests, resp, callres,
                 idx, retInt, before, stale>>

\* _call: a session from the provider, with the retrying adapter mounted.
CallSession ==
  /\ pc = "session"
  /\ sessions' = sessions + 1
  /\ mounted' = RETRIES
  /\ pc' = "request"
  /\ UNCHANGED <<opname, args, url, requests, resp, callres, files, handles,
                 idx, result, retInt, before, stale>>

\* The responses the transport may hand to each operation: the fields an
\* operation never reads stay at their defaults.
Responses(name) ==
  IF name = "get"
  THEN {[NoResp EXCEPT !.status = c, !.body = b] : c \in Codes, b \in Bodies}
  ELSE IF name = "post"
  THEN {[NoResp EXCEPT !.status = c, !.body = b] :
          c \in Codes, b \in Bodies \cup {TextNone, TextMissing}}
  ELSE IF name = "head"
  THEN {[NoResp EXCEPT !.status = c, !.length = h] :
          c \in Codes, h \in HeaderValues \cup {NoHeader}}
  ELSE IF name = "download"
  THEN {[NoResp EXCEPT !.status = c, !.chunks = cs] : c \in Codes, cs \in ChunkSeqs}
  ELSE {[NoResp EXCEPT !.status = c] : c \in Codes}

\* _call: the one request on the session; a transport exception becomes a
\* RestCallException of the exception's type.
CallRequest ==
  /\ pc = "request"
  /\ requests' = requests + 1
  /\ \/ \E e \in TransportErrors :
          /\ callres' = RestCallException(e, MsgTransport, e, FALSE)
          /\ pc' = "after"
          /\ UNCHANGED resp
     \/ \E r \in Responses(opname) :
          /\ resp' = r
          /\ pc' = "status"
          /\ UNCHANGED callres
  /\ UNCHANGED <<opname, args, url, sessions, mounted, files, handles, idx,
                 result, retInt, before, stale>>

\* StatusOutcome with every 2xx code taken for a success and the silent
\* flag of 403 forgotten.
StatusOutcomeAny2xx(code) ==
  IF code >= 200 /\ code < 300 THEN Returned("response")
  ELSE IF code = 400 THEN RestCallException("ValueError", Msg400, "response", FALSE)
  ELSE IF code = 401
  THEN RestCallException("AuthenticationException", Msg401, "response", FALSE)
  ELSE IF code = 403 THEN RestCallException("None", Msg403, "response", FALSE)
  ELSE IF code = 404 THEN RestCallException("OSError", Msg404, "response", FALSE)
  ELSE RestCallException("ValueError", MsgOther, "response", FALSE)

\* _call: the status code decides between the response and a failure.
StatusOutcome(code) ==
  IF code = 200 \/ code = 202 THEN Returned("response")
  ELSE IF code = 400 THEN RestCallException("ValueError", Msg400, "response", FALSE)
  ELSE IF code = 401
  THEN RestCallException("AuthenticationException", Msg401, "response", FALSE)
  ELSE IF code = 403 THEN RestCallException("None", Msg403, "response", TRUE)
  ELSE IF code = 404 THEN RestCallException("OSError", Msg404, "response", FALSE)
  ELSE RestCallException("ValueError", MsgOther, "response", FALSE)

\* CallStatus with a retry loop of its own: a status of 500 sends _call back
\* to the request while fewer than RETRIES requests were issued.
CallStatusRetrying ==
  /\ pc = "status"
  /\ IF resp.status = 500 /\ requests < RETRIES
     THEN pc' = "request" /\ UNCHANGED callres
     ELSE /\ callres' = StatusOutcome(resp.status)
          /\ pc' = "after"
  /\ UNCHANGED <<opname, args, url, sessions, mounted, requests, resp, files,
                 handles, idx, result, retInt, before, stale>>

CallStatus ==
  /\ pc = "status"
  /\ callres' = StatusOutcome(resp.status)
  /\ pc' = "after"
  /\ UNCHANGED <<opname, args, url, sessions, mounted, requests, resp, files,
                 handles, idx, result, retInt, before, stale>>

\* GetOutcome with one except clause for every exception: a failure of
\* _call is wrapped again as a decoding failure.
GetOutcomeCatchAll(cr, body) ==
  IF cr.kind = "raise" THEN RestCallException("ValueError", MsgGetJson, cr.type, FALSE)
  ELSE LET j == JsonLoads(body) IN
       IF j.err = "" THEN Returned(j.val)
       ELSE RestCallException("ValueError", MsgGetJson, j.err, FALSE)

\* get after _call: a RestCallException is re-raised, else the body is
\* decoded.
GetOutcome(cr, body) ==
  IF cr.kind = "raise" THEN cr
  ELSE LET j == JsonLoads(body) IN
       IF j.err = "" THEN Returned(j.val) ELSE GetExcept(j.err)

GetAfter ==
  /\ pc = "after" /\ opname = "get"
  /\ result' = GetOutcome(callres, resp.body)
  /\ pc' = "done"
  /\ UNCHANGED <<opname, args, url, sessions, mounted, requests, resp, callres,
                 files, handles, idx, retInt, before, stale>>

\* HeadOutcome reading the header with headers.get("content-length", 0).
HeadOutcomeDefaultZero(cr, length) ==
  IF cr.kind = "raise" THEN [res |-> cr, int |-> 0]
  ELSE IF length = NoHeader THEN [res |-> Returned("int"), int |-> 0]
  ELSE LET n == PyInt(length) IN
       IF n.err = "" THEN [res |-> Returned("int"), int |-> n.val]
       ELSE [res |-> HeadExcept(n.err), int |-> 0]

\* head after _call: int(response.headers["content-length"]).
HeadOutcome(cr, length) ==
  IF cr.kind = "raise" THEN [res |-> cr, int |-> 0]
  ELSE IF length = NoHeader THEN [res |-> HeadExcept("KeyError"), int |-> 0]
  ELSE LET n == PyInt(length) IN
       IF n.err = "" THEN [res |-> Returned("int"), int |-> n.val]
       ELSE [res |-> HeadExcept(n.err), int |-> 0]

HeadAfter ==
  /\ pc = "after" /\ opname = "head"
  /\ result' = HeadOutcome(callres, resp.length).res
  /\ retInt' = HeadOutcome(callres, resp.length).int
  /\ pc' = "done"
  /\ UNCHANGED <<opname, args, url, sessions, mounted, requests, resp, callres,
                 files, handles, idx, before, stale>>

\* post after _call: json.loads(response.text).
PostOutcome(cr, body) ==
  IF cr.kind = "raise" THEN cr
  ELSE LET j == JsonLoads(body) IN
       IF j.err = "" THEN Returned(j.val) ELSE PostExcept(j.err)

PostAfter ==
  /\ pc = "after" /\ opname = "post"
  /\ result' = PostOutcome(callres, resp.body)
  /\ pc' = "done"
  /\ UNCHANGED <<opname, args, url, sessions, mounted, requests, resp, callres,
                 files, handles, idx, retInt, before, stale>>

\* put after _call: the raw response.
PutAfter ==
  /\ pc = "after" /\ opname = "put"
  /\ result' = callres
  /\ pc' = "done"
  /\ UNCHANGED <<opname, args, url, sessions, mounted, requests, resp, callres,
                 files, handles, idx, retInt, before, stale>>

\* download after _call: a RestCallException leaves the with block and is
\* re-raised, else the loop over the chunks starts.
DownloadAfter ==
  /\ pc = "after" /\ opname = "download"
  /\ IF callres.kind = "raise"
     THEN /\ result' = callres
          /\ handles' = ExitWith(handles, args.dest)
          /\ stale' = [stale EXCEPT ![args.dest] = TRUE]
          /\ pc' = "done"
          /\ UNCHANGED idx
     ELSE /\ idx' = 1
          /\ pc' = "loop"
          /\ UNCHANGED <<result, handles, stale>>
  /\ UNCHANGED <<opname, args, url, sessions, mounted, requests, resp, callres,
                 files, retInt, before>>

\* Written with the block put at the start of the file instead of its end.
WrittenAtStart(data, block) == block \o data

\* handle.write(block): the bytes of the file after the write.
Written(data, block) == data \o block

\* One turn of download's loop: the iteration is over or the block is empty
\* (the response is returned), or the block is written, or the write fails.
DownloadBlock ==
  /\ pc = "loop"
  /\ IF idx > Len(resp.chunks) \/ resp.chunks[idx] = <<>>
     THEN /\ result' = Returned("response")
          /\ handles' = ExitWith(handles, args.dest)
          /\ stale' = [stale EXCEPT ![args.dest] = FALSE]
          /\ pc' = "done"
          /\ UNCHANGED <<files, idx>>
     ELSE \/ /\ files' = [files EXCEPT
                            ![args.dest].data = Written(@, resp.chunks[idx])]
             /\ idx' = idx + 1
             /\ UNCHANGED <<pc, result, handles, stale>>
          \/ /\ result' = DownloadExcept("OSError")
             /\ handles' = ExitWith(handles, args.dest)
             /\ stale' = [stale EXCEPT ![args.dest] = FALSE]
             /\ pc' = "done"
             /\ UNCHANGED <<files, idx>>
  /\ UNCHANGED <<opname, args, url, sessions, mounted, requests, resp, callres,
                 retInt, before>>

\* The caller has the outcome and the locals of the call are gone; the
\* filesystem, and any handle left open, remain.
Finish ==
  /\ pc = "done"
  /\ pc' = "idle"
  /\ opname' = ""
  /\ args' = NoArgs
  /\ url' = <<>>
  /\ sessions' = 0
  /\ mounted' = 0
  /\ requests' = 0
  /\ resp' = NoResp
  /\ callres' = NoResult
  /\ idx' = 0
  /\ result' = NoResult
  /\ retInt' = 0
  /\ before' = [files |-> files, stale |-> stale]
  /\ UNCHANGED <<files, handles, stale>>

Next ==
  \/ GetStart
  \/ HeadStart
  \/ PostStart
  \/ PutStart
  \/ DownloadStart
  \/ DownloadOpen
  \/ CallSession
  \/ CallRequest
  \/ CallStatus
  \/ GetAfter
  \/ HeadAfter
  \/ PostAfter
  \/ PutAfter
  \/ DownloadAfter
  \/ DownloadBlock
  \/ Finish

Spec == Init /\ [][Next]_vars

\* ------------------------------------------------- the specification's words
\* The error kinds of the specification, read off the type and the message
\* of a RestCallException.
Kind(r) ==
  IF r.kind # "raise" THEN "none"
  ELSE IF r.type \in TransportErrors THEN "transport-error"
  ELSE IF r.msg = Msg400 THEN "malformed-request"
  ELSE IF r.msg = Msg401 THEN "authentication"
  ELSE IF r.msg = Msg403 THEN "not-applicable"
  ELSE IF r.msg = Msg404 THEN "not-found"
  ELSE IF r.msg = MsgOther THEN "generic-call-failure"
  ELSE IF r.msg \in {MsgGetJson, MsgPostJson, MsgPostText} THEN "decode-failure"
  ELSE IF r.msg = MsgNoLength THEN "missing-header"
  ELSE IF r.msg = MsgBadUrl THEN "malformed-url"
  ELSE IF r.msg = MsgOsError THEN "filesystem-failure"
  ELSE "unknown"

\* The mapping table of the dispatcher: status code to kind.
TableKind(code) ==
  CASE code = 400 -> "malformed-request"
    [] code = 401 -> "authentication"
    [] code = 403 -> "not-applicable"
    [] code = 404 -> "not-found"
    [] OTHER -> "generic-call-failure"

\* The bytes of a sequence of chunks, in order.
RECURSIVE Concat(_)
Concat(cs) ==
  IF Len(cs) = 0 THEN <<>> ELSE Head(cs) \o Concat(Tail(cs))

\* The chunks that precede the first empty chunk.
RECURSIVE UntilEmpty(_)
UntilEmpty(cs) ==
  IF Len(cs) = 0 \/ Head(cs) = <<>> THEN <<>>
  ELSE <<Head(cs)>> \o UntilEmpty(Tail(cs))

\* The number a string of decimal digits denotes, digit by digit from the
\* right.
RECURSIVE DecimalValue(_)
DecimalValue(s) ==
  IF Len(s) = 0 THEN 0
  ELSE 10 * DecimalValue(SubSeq(s, 1, Len(s) - 1))
       + (CASE s[Len(s)] = "4" -> 4 [] s[Len(s)] = "2" -> 2 [] OTHER -> 0)

IsDecimal(s) == Len(s) > 0 /\ \A i \in 1..Len(s) : s[i] \in {"4", "2"}

\* The positions of download inside its with block.
InWithBlock == pc \in {"session", "request", "status", "after", "loop"}

\* ------------------------------------------------------------- the claims

\* C1: whenever the transport answered with a status code, _call hands back
\* the response if and only if the code is 200 or 202; for every other code
\* it raises the failure whose kind the mapping table gives, with the
\* response as cause, and the silent flag is set if and only if the code is
\* 403.
C1_StatusMapping ==
  (pc = "after" /\ resp.status # 0) =>
    /\ callres.kind \in {"return", "raise"}
    /\ callres.kind = "return" <=> resp.status \in {200, 202}
    /\ callres.kind = "return" => callres.val = "response"
    /\ callres.kind = "raise" =>
         /\ Kind(callres) = TableKind(resp.status)
         /\ callres.cause = "response"
         /\ callres.silent <=> resp.status = 403

C1_Witness ==
  /\ pc = "after"
  /\ resp.status = 403
  /\ callres.kind = "raise"
  /\ callres.silent

\* C2 as stated: a download with overwrite=false on an existing destination
\* issues no request, leaves the file as it was and returns True, and a
\* download with overwrite=true always issues the request.
C2_AsStated ==
  (pc = "done" /\ opname = "download") =>
    /\ (~args.overwrite /\ before.files[args.dest].exists) =>
         /\ requests = 0
         /\ files = before.files
         /\ result = Returned("True")
    /\ args.overwrite => requests = 1

\* C2 amended: a download with overwrite=false on an existing destination
\* issues no request, acquires no session, leaves the file as it was and
\* returns True; a download with overwrite=true never returns True and
\* issues the request whether or not the file exists, unless opening the
\* destination fails: then it issues none, leaves the file as it was and
\* fails with filesystem-failure.
C2_DownloadIdempotence ==
  (pc = "done" /\ opname = "download") =>
    /\ (~args.overwrite /\ before.files[args.dest].exists) =>
         /\ requests = 0
         /\ sessions = 0
         /\ files = before.files
         /\ result = Returned("True")
    /\ args.overwrite =>
         /\ result # Returned("True")
         /\ \/ requests = 1
            \/ /\ requests = 0
               /\ Kind(result) = "filesystem-failure"
               /\ files = before.files

C2_Witness ==
  /\ pc = "done"
  /\ opname = "download"
  /\ args.overwrite
  /\ before.files[args.dest].exists
  /\ before.files[args.dest].data = <<"a">>
  /\ requests = 1

\* C3 as stated: whatever a wrapper hands to its caller is a returned value
\* or a RestCallException, never another exception.
C3_SingleFailureType ==
  pc = "done" => result.kind \in {"return", "raise"}

\* C4 as stated: after a successful streaming response the file holds
\* exactly the non-empty chunks that precede the first empty chunk, in
\* order, and download returns the response.
C4_AsStated ==
  (pc = "done" /\ opname = "download" /\ callres.kind = "return") =>
    /\ files[args.dest].data = Concat(UntilEmpty(resp.chunks))
    /\ result = Returned("response")

\* C4 amended: during the loop the file holds exactly the chunks read so
\* far, none of them empty; when download returns the response the file
\* holds exactly the non-empty chunks that precede the first empty chunk, in
\* order; the only other way out of the loop is a failed write, after which
\* the file holds the chunks written before it and download fails with
\* filesystem-failure.
C4_ChunkLoop ==
  /\ pc = "loop" =>
       /\ files[args.dest].data = Concat(SubSeq(resp.chunks, 1, idx - 1))
       /\ \A i \in 1..(idx - 1) : resp.chunks[i] # <<>>
  /\ (pc = "done" /\ opname = "download" /\ callres.kind = "return") =>
       \/ /\ result = Returned("response")
          /\ files[args.dest].data = Concat(UntilEmpty(resp.chunks))
       \/ /\ Kind(result) = "filesystem-failure"
          /\ \E n \in 0..(Len(UntilEmpty(resp.chunks)) - 1) :
               files[args.dest].data = Concat(SubSeq(resp.chunks, 1, n))

C4_Witness ==
  /\ pc = "done"
  /\ opname = "download"
  /\ resp.chunks = <<<<"a">>, <<"b", "c">>, <<>>>>
  /\ result = Returned("response")
  /\ files[args.dest].data = <<"a", "b", "c">>

\* C5: a file handle is open only inside a download, from the open that
\* follows the overwrite test until the call leaves the with block; no handle
\* is open before the open, and none when the call has returned or failed,
\* whichever way it ended.
C5_HandleScoped ==
  /\ pc \in {"idle", "done", "open"} => handles = {}
  /\ handles # {} => opname = "download" /\ InWithBlock
  /\ (opname = "download" /\ InWithBlock) => handles = {args.dest}

C5_Witness ==
  /\ pc = "done"
  /\ opname = "download"
  /\ requests = 1
  /\ callres.kind = "return"
  /\ Kind(result) = "filesystem-failure"
  /\ handles = {}

\* C6 as stated: when the substitution of the filename into the template of
\* head or put fails, the operation fails with malformed-url and issues no
\* request.
C6_TemplateFailure ==
  (pc = "done" /\ opname \in {"head", "put"}
     /\ Format(args.template, url_from_filename(args.filename)).err # "") =>
    /\ Kind(result) = "malformed-url"
    /\ requests = 0

\* C7: an operation acquires at most one session and issues at most one
\* request; once _call has issued its request it has acquired exactly one
\* session and issued exactly one request, and this stays so after any
\* status code until the operation ends.
C7_OneRequest ==
  /\ sessions <= 1
  /\ requests <= 1
  /\ pc \in {"status", "after", "loop"} => sessions = 1 /\ requests = 1
  /\ pc = "request" => sessions = 1 /\ requests = 0 /\ mounted = RETRIES
  /\ pc = "done" => requests = sessions
  /\ (pc = "done" /\ callres # NoResult) => requests = 1

C7_Witness ==
  /\ pc = "done"
  /\ resp.status = 500
  /\ Kind(result) = "generic-call-failure"
  /\ requests = 1
  /\ sessions = 1

\* C8: when _call succeeds, get returns the decoded value of a body that is
\* valid JSON and fails with decode-failure, the decoder's error as cause,
\* for an empty or invalid body; a failure raised by _call reaches the caller
\* of get unchanged.
C8_GetDecoding ==
  (pc = "done" /\ opname = "get") =>
    /\ callres.kind = "raise" => result = callres
    /\ callres.kind = "return" =>
         /\ resp.body = "{\"a\":1}" => result = Returned("dict(a=1)")
         /\ resp.body = "\"ok\"" => result = Returned("str(ok)")
         /\ resp.body \in {"", "not json"} =>
              /\ Kind(result) = "decode-failure"
              /\ result.type = "ValueError"
              /\ result.cause = "ValueError"
              /\ ~result.silent

C8_Witness ==
  /\ pc = "done"
  /\ opname = "get"
  /\ callres.kind = "return"
  /\ resp.body = ""
  /\ Kind(result) = "decode-failure"

C10_TruncateBeforeRequest ==
  /\ (opname = "download" /\ pc \in {"session", "request", "status", "after"}) =>
       files[args.dest] = [exists |-> TRUE, data |-> <<>>]
  /\ (pc = "done" /\ opname = "download" /\ callres.kind = "raise") =>
       /\ requests = 1
       /\ result = callres
       /\ files[args.dest] = [exists |-> TRUE, data |-> <<>>]
  /\ (pc = "done" /\ opname = "download" /\ ~args.overwrite
        /\ before.stale[args.dest]) =>
       /\ requests = 0
       /\ result = Returned("True")
       /\ files[args.dest] = [exists |-> TRUE, data |-> <<>>]

C10_Witness ==
  /\ pc = "done"
  /\ opname = "download"
  /\ ~args.overwrite
  /\ before.stale[args.dest]
  /\ result = Returned("True")
  /\ requests = 0

====
